---- MODULE Spec2Model ----
(***************************************************************************)
(* PromptMentor content script: the pattern detector (analyzePrompt), the  *)
(* debounced check of the latest user message and the overlay panel.       *)
(* Text is a sequence of one-character strings, so that trim(), length     *)
(* and the regular expressions of the detector are computed, not assumed.  *)
(***************************************************************************)
EXTENDS Integers, Sequences, FiniteSets, TLC

(***************************************************************************)
(* Characters and the character classes of JavaScript regular expressions  *)
(***************************************************************************)
UpperCase == <<"A","B","C","D","E","F","G","H","I","J","K","L","M",
               "N","O","P","Q","R","S","T","U","V","W","X","Y","Z">>

LowerCase == <<"a","b","c","d","e","f","g","h","i","j","k","l","m",
               "n","o","p","q","r","s","t","u","v","w","x","y","z">>

Digits == {"0","1","2","3","4","5","6","7","8","9"}

\* the /i flag: characters are compared after case folding
Fold(c) ==
    IF \E i \in 1..26 : UpperCase[i] = c
    THEN LowerCase[CHOOSE i \in 1..26 : UpperCase[i] = c]
    ELSE c

\* \w
IsWordChar(c) ==
    \/ \E i \in 1..26 : c = UpperCase[i] \/ c = LowerCase[i]
    \/ c \in Digits
    \/ c = "_"

\* \s (and the characters String.prototype.trim removes)
IsSpace(c) == c \in {" ", "\t", "\n", "\r"}

\* is position p of s (1-based) inside the text and a word character
WordAt(s, p) == p >= 1 /\ p <= Len(s) /\ IsWordChar(s[p])

(***************************************************************************)
(* Regular-expression pieces.  A piece maps a set P of positions (the      *)
(* index of the next character to consume) to the set of positions where   *)
(* a match of the piece that started in P can end, so every backtracking   *)
(* choice of the engine is covered.                                        *)
(***************************************************************************)
\* \b left out of the patterns
BoundaryIgnored(s, P) == P

\* \b
Boundary(s, P) == {p \in P : WordAt(s, p - 1) # WordAt(s, p)}

\* a literal word w
Lit(s, P, w) ==
    {p + Len(w) : p \in {q \in P : /\ q + Len(w) - 1 <= Len(s)
                                   /\ \A k \in 1..Len(w) :
                                        Fold(s[q + k - 1]) = Fold(w[k])}}

\* an alternation (w1|w2|...) of literal words
Alt(s, P, ws) == UNION {Lit(s, P, w) : w \in ws}

\* \s+
Spaces(s, P) ==
    {q \in 2..(Len(s) + 1) :
        \E p \in P : p < q /\ \A k \in p..(q - 1) : IsSpace(s[k])}

\* all positions at which a match may start
Starts(s) == 1..(Len(s) + 1)

(***************************************************************************)
(* The rule set                                                            *)
(***************************************************************************)
\* (write|give|generate|create|make|provide)
E1Verbs ==
    { <<"w","r","i","t","e">>,
      <<"g","i","v","e">>,
      <<"g","e","n","e","r","a","t","e">>,
      <<"c","r","e","a","t","e">>,
      <<"m","a","k","e">>,
      <<"p","r","o","v","i","d","e">> }

\* (code|function|program|solution|script|implementation|answer)
E1Nouns ==
    { <<"c","o","d","e">>,
      <<"f","u","n","c","t","i","o","n">>,
      <<"p","r","o","g","r","a","m">>,
      <<"s","o","l","u","t","i","o","n">>,
      <<"s","c","r","i","p","t">>,
      <<"i","m","p","l","e","m","e","n","t","a","t","i","o","n">>,
      <<"a","n","s","w","e","r">> }

\* (solve|fix|debug|complete|finish)
E2Verbs ==
    { <<"s","o","l","v","e">>,
      <<"f","i","x">>,
      <<"d","e","b","u","g">>,
      <<"c","o","m","p","l","e","t","e">>,
      <<"f","i","n","i","s","h">> }

\* (this|the|it|my)
E2Objects ==
    { <<"t","h","i","s">>,
      <<"t","h","e">>,
      <<"i","t">>,
      <<"m","y">> }

\* (code|implement|write|create|build|make)
E3Verbs ==
    { <<"c","o","d","e">>,
      <<"i","m","p","l","e","m","e","n","t">>,
      <<"w","r","i","t","e">>,
      <<"c","r","e","a","t","e">>,
      <<"b","u","i","l","d">>,
      <<"m","a","k","e">> }

\* (code|solution|answer|output|result)
E4Nouns ==
    { <<"c","o","d","e">>,
      <<"s","o","l","u","t","i","o","n">>,
      <<"a","n","s","w","e","r">>,
      <<"o","u","t","p","u","t">>,
      <<"r","e","s","u","l","t">> }

\* (implement|create|write|design|develop)
E5Verbs ==
    { <<"i","m","p","l","e","m","e","n","t">>,
      <<"c","r","e","a","t","e">>,
      <<"w","r","i","t","e">>,
      <<"d","e","s","i","g","n">>,
      <<"d","e","v","e","l","o","p">> }

\* (class|function|method|program|algorithm)
E5Nouns ==
    { <<"c","l","a","s","s">>,
      <<"f","u","n","c","t","i","o","n">>,
      <<"m","e","t","h","o","d">>,
      <<"p","r","o","g","r","a","m">>,
      <<"a","l","g","o","r","i","t","h","m">> }

\* (that|which|to)
E5Rels ==
    { <<"t","h","a","t">>,
      <<"w","h","i","c","h">>,
      <<"t","o">> }

\* (hint|clue|guide|direction|pointer|nudge)
A1Words ==
    { <<"h","i","n","t">>,
      <<"c","l","u","e">>,
      <<"g","u","i","d","e">>,
      <<"d","i","r","e","c","t","i","o","n">>,
      <<"p","o","i","n","t","e","r">>,
      <<"n","u","d","g","e">> }

\* (approach|solution|code|attempt|understanding|idea)
A2Nouns ==
    { <<"a","p","p","r","o","a","c","h">>,
      <<"s","o","l","u","t","i","o","n">>,
      <<"c","o","d","e">>,
      <<"a","t","t","e","m","p","t">>,
      <<"u","n","d","e","r","s","t","a","n","d","i","n","g">>,
      <<"i","d","e","a">> }

\* (tried|think|wrote|attempted|believe|started)
A2Verbs ==
    { <<"t","r","i","e","d">>,
      <<"t","h","i","n","k">>,
      <<"w","r","o","t","e">>,
      <<"a","t","t","e","m","p","t","e","d">>,
      <<"b","e","l","i","e","v","e">>,
      <<"s","t","a","r","t","e","d">> }

\* concept|understand|learn|review|theory|principle (explain\s+why is handled in the rule)
A3Words ==
    { <<"c","o","n","c","e","p","t">>,
      <<"u","n","d","e","r","s","t","a","n","d">>,
      <<"l","e","a","r","n">>,
      <<"r","e","v","i","e","w">>,
      <<"t","h","e","o","r","y">>,
      <<"p","r","i","n","c","i","p","l","e">> }

\* correct|right|wrong|good|bad|valid (on\s+track is handled in the rule)
A4Adjectives ==
    { <<"c","o","r","r","e","c","t">>,
      <<"r","i","g","h","t">>,
      <<"w","r","o","n","g">>,
      <<"g","o","o","d">>,
      <<"b","a","d">>,
      <<"v","a","l","i","d">> }

\* /\b(write|give|generate|create|make|provide)\s+(me\s+)?(the\s+)?(code|...|answer)/i
E1Test(s) ==
    LET p1 == Alt(s, Boundary(s, Starts(s)), E1Verbs)
        p2 == Spaces(s, p1)
        p3 == p2 \cup Spaces(s, Lit(s, p2, <<"m","e">>))
        p4 == p3 \cup Spaces(s, Lit(s, p3, <<"t","h","e">>))
    IN  Alt(s, p4, E1Nouns) # {}

\* /\b(solve|fix|debug|complete|finish)\s+(this|the|it|my)\b/i
E2Test(s) ==
    LET p1 == Alt(s, Boundary(s, Starts(s)), E2Verbs)
        p2 == Alt(s, Spaces(s, p1), E2Objects)
    IN  Boundary(s, p2) # {}

\* /\bhow\s+(do\s+I|to|can\s+I|should\s+I)\s+(code|implement|write|create|build|make)\b/i
E3Test(s) ==
    LET p1 == Spaces(s, Lit(s, Boundary(s, Starts(s)), <<"h","o","w">>))
        p2 == Lit(s, Spaces(s, Lit(s, p1, <<"d","o">>)), <<"I">>)
               \cup Lit(s, p1, <<"t","o">>)
               \cup Lit(s, Spaces(s, Lit(s, p1, <<"c","a","n">>)), <<"I">>)
               \cup Lit(s, Spaces(s, Lit(s, p1, <<"s","h","o","u","l","d">>)), <<"I">>)
        p3 == Alt(s, Spaces(s, p2), E3Verbs)
    IN  Boundary(s, p3) # {}

\* /\bwhat('s|\s+is)\s+(the\s+)?(code|solution|answer|output|result)\b/i
E4Test(s) ==
    LET p1 == Lit(s, Boundary(s, Starts(s)), <<"w","h","a","t">>)
        p2 == Lit(s, p1, <<"'","s">>) \cup Lit(s, Spaces(s, p1), <<"i","s">>)
        p3 == Spaces(s, p2)
        p4 == p3 \cup Spaces(s, Lit(s, p3, <<"t","h","e">>))
        p5 == Alt(s, p4, E4Nouns)
    IN  Boundary(s, p5) # {}

\* /\b(implement|create|write|design|develop)\s+a\s+(class|...|algorithm)\s+(that|which|to)\b/i
E5Test(s) ==
    LET p1 == Alt(s, Boundary(s, Starts(s)), E5Verbs)
        p2 == Spaces(s, Lit(s, Spaces(s, p1), <<"a">>))
        p3 == Alt(s, Spaces(s, Alt(s, p2, E5Nouns)), E5Rels)
    IN  Boundary(s, p3) # {}

\* /\b(hint|clue|guide|direction|pointer|nudge)\b/i
A1Test(s) ==
    Boundary(s, Alt(s, Boundary(s, Starts(s)), A1Words)) # {}

\* the second adaptive rule without its "I tried" alternative
A2TestPossessiveOnly(s) ==
    LET p1 == Lit(s, Boundary(s, Starts(s)), <<"m","y">>)
        p2 == Alt(s, Spaces(s, p1), A2Nouns)
    IN  Boundary(s, p2) # {}

\* /\b(my\s+(approach|...|idea)|I\s+(tried|...|started))\b/i
A2Test(s) ==
    LET p0 == Boundary(s, Starts(s))
        p1 == Alt(s, Spaces(s, Lit(s, p0, <<"m","y">>)), A2Nouns)
        p2 == Alt(s, Spaces(s, Lit(s, p0, <<"I">>)), A2Verbs)
    IN  Boundary(s, p1 \cup p2) # {}

\* /\b(concept|understand|explain\s+why|learn|review|theory|principle)\b/i
A3Test(s) ==
    LET p0 == Boundary(s, Starts(s))
        p1 == Alt(s, p0, A3Words)
        p2 == Lit(s, Spaces(s, Lit(s, p0, <<"e","x","p","l","a","i","n">>)),
                  <<"w","h","y">>)
    IN  Boundary(s, p1 \cup p2) # {}

\* /\b(is\s+(this|my)|am\s+I|does\s+this|check\s+(my|if))\s+(correct|...|on\s+track|valid)/i
A4Test(s) ==
    LET p0 == Boundary(s, Starts(s))
        p1 == Alt(s, Spaces(s, Lit(s, p0, <<"i","s">>)),
                  {<<"t","h","i","s">>, <<"m","y">>})
               \cup Lit(s, Spaces(s, Lit(s, p0, <<"a","m">>)), <<"I">>)
               \cup Lit(s, Spaces(s, Lit(s, p0, <<"d","o","e","s">>)),
                        <<"t","h","i","s">>)
               \cup Alt(s, Spaces(s, Lit(s, p0, <<"c","h","e","c","k">>)),
                        {<<"m","y">>, <<"i","f">>})
        p2 == Spaces(s, p1)
        p3 == Alt(s, p2, A4Adjectives)
               \cup Lit(s, Spaces(s, Lit(s, p2, <<"o","n">>)),
                        <<"t","r","a","c","k">>)
    IN  p3 # {}

\* the rules in declared order; pattern names the test of the rule
EXECUTIVE_PATTERNS ==
    << [pattern |-> "E1", type |-> "solution_request",
        message |-> "Asking for complete code reduces your learning opportunity.",
        suggestion |-> "What are the key steps or concepts I should consider for this problem?"],
       [pattern |-> "E2", type |-> "solution_request",
        message |-> "Asking to solve directly skips important problem-solving practice.",
        suggestion |-> "Can you give me a hint about where to start or what might be wrong?"],
       [pattern |-> "E3", type |-> "implementation_request",
        message |-> "This might give you step-by-step instructions without building understanding.",
        suggestion |-> "What concepts or algorithms are typically used for this type of problem?"],
       [pattern |-> "E4", type |-> "answer_request",
        message |-> "Asking for the answer directly limits your learning.",
        suggestion |-> "Can you check if my approach is on the right track? Here's what I've tried: [your attempt]"],
       [pattern |-> "E5", type |-> "assignment_paste",
        message |-> "This looks like a pasted assignment. Try rephrasing in your own words first.",
        suggestion |-> "I'm working on [describe problem in your words]. I think I need to [your initial idea]. Is this a good starting point?"] >>

ADAPTIVE_PATTERNS ==
    << [pattern |-> "A1", type |-> "hint_request",
        message |-> "Great! Asking for hints is an effective learning strategy."],
       [pattern |-> "A2", type |-> "shows_attempt",
        message |-> "Excellent! Showing your attempt helps you get targeted feedback."],
       [pattern |-> "A3", type |-> "conceptual_question",
        message |-> "Good thinking! Understanding concepts helps with future problems too."],
       [pattern |-> "A4", type |-> "verification_request",
        message |-> "Nice! Checking your understanding is a valuable metacognitive skill."] >>

\* config.pattern.test(promptText)
PatternTest(config, s) ==
    CASE config.pattern = "E1" -> E1Test(s)
      [] config.pattern = "E2" -> E2Test(s)
      [] config.pattern = "E3" -> E3Test(s)
      [] config.pattern = "E4" -> E4Test(s)
      [] config.pattern = "E5" -> E5Test(s)
      [] config.pattern = "A1" -> A1Test(s)
      [] config.pattern = "A2" -> A2Test(s)
      [] config.pattern = "A3" -> A3Test(s)
      [] config.pattern = "A4" -> A4Test(s)

\* the suggestion of a rule is never taken
HasSuggestionNever(config) == FALSE

\* if (config.suggestion): the field is present and not the empty string
HasSuggestion(config) ==
    "suggestion" \in DOMAIN config /\ config.suggestion # ""

RECURSIVE ExecutiveLoopBreaks(_, _, _)
\* the loop left at the first rule that matches
ExecutiveLoopBreaks(promptText, i, result) ==
    IF i > Len(EXECUTIVE_PATTERNS) THEN result
    ELSE LET config == EXECUTIVE_PATTERNS[i]
         IN  IF PatternTest(config, promptText)
             THEN [result EXCEPT
                     !.isExecutive = TRUE,
                     !.executivePatterns =
                         Append(@, [type |-> config.type,
                                    message |-> config.message]),
                     !.suggestions =
                         IF HasSuggestion(config)
                         THEN Append(@, config.suggestion) ELSE @]
             ELSE ExecutiveLoopBreaks(promptText, i + 1, result)

RECURSIVE ExecutiveLoop(_, _, _)
\* for (const config of EXECUTIVE_PATTERNS) { ... }, from rule i on
ExecutiveLoop(promptText, i, result) ==
    IF i > Len(EXECUTIVE_PATTERNS) THEN result
    ELSE LET config == EXECUTIVE_PATTERNS[i]
         IN  IF PatternTest(config, promptText)
             THEN ExecutiveLoop(promptText, i + 1,
                    [result EXCEPT
                       !.isExecutive = TRUE,
                       !.executivePatterns =
                           Append(@, [type |-> config.type,
                                      message |-> config.message]),
                       !.suggestions =
                           IF HasSuggestion(config)
                           THEN Append(@, config.suggestion) ELSE @])
             ELSE ExecutiveLoop(promptText, i + 1, result)

RECURSIVE AdaptiveLoop(_, _, _)
\* for (const config of ADAPTIVE_PATTERNS) { ... }, from rule i on
AdaptiveLoop(promptText, i, result) ==
    IF i > Len(ADAPTIVE_PATTERNS) THEN result
    ELSE LET config == ADAPTIVE_PATTERNS[i]
         IN  IF PatternTest(config, promptText)
             THEN AdaptiveLoop(promptText, i + 1,
                    [result EXCEPT
                       !.isAdaptive = TRUE,
                       !.adaptivePatterns =
                           Append(@, [type |-> config.type,
                                      message |-> config.message])])
             ELSE AdaptiveLoop(promptText, i + 1, result)

\* the adaptive rules are tried only when no executive rule matched
analyzePromptExecutiveFirst(promptText) ==
    LET result == [isExecutive |-> FALSE, isAdaptive |-> FALSE,
                   executivePatterns |-> <<>>, adaptivePatterns |-> <<>>,
                   suggestions |-> <<>>]
        executive == ExecutiveLoop(promptText, 1, result)
    IN  IF executive.isExecutive THEN executive
        ELSE AdaptiveLoop(promptText, 1, executive)

\* a fallback suggestion is supplied when no rule gave one
analyzePromptFallbackSuggestion(promptText) ==
    LET result == [isExecutive |-> FALSE, isAdaptive |-> FALSE,
                   executivePatterns |-> <<>>, adaptivePatterns |-> <<>>,
                   suggestions |-> <<>>]
        analysis == AdaptiveLoop(promptText, 1,
                                 ExecutiveLoop(promptText, 1, result))
    IN  IF analysis.suggestions = <<>>
        THEN [analysis EXCEPT !.suggestions = <<"Can you give me a hint?">>]
        ELSE analysis

analyzePrompt(promptText) ==
    LET result == [isExecutive |-> FALSE, isAdaptive |-> FALSE,
                   executivePatterns |-> <<>>, adaptivePatterns |-> <<>>,
                   suggestions |-> <<>>]
    IN  AdaptiveLoop(promptText, 1, ExecutiveLoop(promptText, 1, result))

(***************************************************************************)
(* The host document: what the page shows as the last user message        *)
(***************************************************************************)
\* "give the codes": 14 characters, would match the first executive rule
Text14 == <<"g","i","v","e"," ","t","h","e"," ","c","o","d","e","s">>

\* "my approach now": 15 characters, adaptive only
Text15 == <<"m","y"," ","a","p","p","r","o","a","c","h"," ","n","o","w">>

\* "write the code now": executive
TextWrite ==
    <<"w","r","i","t","e"," ","t","h","e"," ","c","o","d","e"," ","n","o","w">>

\* the same prompt as textContent, with white space around it
TextWritePadded == <<" ">> \o TextWrite \o <<"\n">>

\* "I tried to solve it, now give me the code": executive by the first two
\* rules, and adaptive
TextTried ==
    <<"I"," ","t","r","i","e","d"," ","t","o"," ","s","o","l","v","e"," ",
      "i","t",","," ","n","o","w"," ","g","i","v","e"," ","m","e"," ","t","h",
      "e"," ","c","o","d","e">>

\* "the weather is nice today": no rule matches
TextWeather ==
    <<"t","h","e"," ","w","e","a","t","h","e","r"," ","i","s"," ","n","i","c",
      "e"," ","t","o","d","a","y">>

\* white space only
TextBlank == <<" "," "," ">>

\* the text contents the page may show in the last user message
PageTexts ==
    { Text14, Text15, TextWritePadded, TextTried, TextWeather, TextBlank }

\* document.querySelectorAll(userMessage) is empty / the last message has no
\* content element / the content element has the text
NoMessage == [found |-> "noMessage", textContent |-> <<>>]

NoContent == [found |-> "noContent", textContent |-> <<>>]

Pages ==
    {NoMessage, NoContent}
        \cup {[found |-> "content", textContent |-> t] : t \in PageTexts}

RECURSIVE TrimStart(_)
TrimStart(s) ==
    IF s # <<>> /\ IsSpace(Head(s)) THEN TrimStart(Tail(s)) ELSE s

RECURSIVE TrimEnd(_)
TrimEnd(s) ==
    IF s # <<>> /\ IsSpace(s[Len(s)])
    THEN TrimEnd(SubSeq(s, 1, Len(s) - 1)) ELSE s

\* white space removed at the start only
TrimStartOnly(s) == TrimStart(s)

\* String.prototype.trim
Trim(s) == TrimEnd(TrimStart(s))

\* the analysis of every text the page can show, computed once
Analysis == [t \in {Trim(p) : p \in PageTexts} |-> analyzePrompt(t)]

(***************************************************************************)
(* The texts analyzePrompt is applied to on its own                       *)
(***************************************************************************)
\* "write the code": the first executive rule
PhraseWrite ==
    <<"w","r","i","t","e"," ","t","h","e"," ","c","o","d","e">>

\* "let's rewrite code": "write" inside a word
PhraseRewrite ==
    <<"l","e","t","'","s"," ","r","e","w","r","i","t","e"," ","c","o","d",
      "e">>

\* "solve this": the second executive rule
PhraseSolve ==
    <<"s","o","l","v","e"," ","t","h","i","s">>

\* "How do I build": the third executive rule
PhraseHow ==
    <<"H","o","w"," ","d","o"," ","I"," ","b","u","i","l","d">>

\* "what's the answer": the fourth executive rule
PhraseWhat ==
    <<"w","h","a","t","'","s"," ","t","h","e"," ","a","n","s","w","e","r">>

\* "write a function that": the fifth executive rule
PhraseAssignment ==
    <<"w","r","i","t","e"," ","a"," ","f","u","n","c","t","i","o","n"," ",
      "t","h","a","t">>

\* "a hint": the first adaptive rule
PhraseHint ==
    <<"a"," ","h","i","n","t">>

\* "I tried": the second adaptive rule
PhraseTried ==
    <<"I"," ","t","r","i","e","d">>

\* "explain why": the third adaptive rule
PhraseExplain ==
    <<"e","x","p","l","a","i","n"," ","w","h","y">>

\* "is this correct": the fourth adaptive rule
PhraseVerify ==
    <<"i","s"," ","t","h","i","s"," ","c","o","r","r","e","c","t">>

\* "the weather": no rule
PhraseWeather ==
    <<"t","h","e"," ","w","e","a","t","h","e","r">>

\* "GIVE  ME  CODES": upper case, two spaces, a longer noun
PhraseShout ==
    <<"G","I","V","E"," "," ","M","E"," "," ","C","O","D","E","S">>

Phrases ==
    { PhraseWrite, PhraseRewrite, PhraseSolve, PhraseHow, PhraseWhat,
      PhraseAssignment, PhraseHint, PhraseTried, PhraseExplain, PhraseVerify,
      PhraseWeather, PhraseShout }

\* the most phrases a generated text is made of
MaxPhrases == 2

RECURSIVE PhraseTexts(_)
\* the texts made of 1..n phrases with one space between them
PhraseTexts(n) ==
    IF n = 1 THEN Phrases
    ELSE LET shorter == PhraseTexts(n - 1)
         IN  shorter \cup {a \o <<" ">> \o b : a \in shorter, b \in Phrases}

\* the empty string
TextEmpty ==
    <<>>

\* white space of several kinds
TextWhitespace == <<" ", "\t", "\n", " ">>

\* "Can you write the solution for binary search?"
TextBinarySearch ==
    <<"C","a","n"," ","y","o","u"," ","w","r","i","t","e"," ","t","h","e",
      " ","s","o","l","u","t","i","o","n"," ","f","o","r"," ","b","i","n",
      "a","r","y"," ","s","e","a","r","c","h","?">>

\* "I tried my own solution, now give me the code"
TextTriedOwn ==
    <<"I"," ","t","r","i","e","d"," ","m","y"," ","o","w","n"," ","s","o",
      "l","u","t","i","o","n",","," ","n","o","w"," ","g","i","v","e"," ",
      "m","e"," ","t","h","e"," ","c","o","d","e">>

\* the prompts analyzePrompt is called with
ClassifierInputs ==
    { TextEmpty, TextBlank, TextWhitespace, TextBinarySearch, TextTriedOwn }
        \cup PhraseTexts(MaxPhrases)

(***************************************************************************)
(* Program constants                                                       *)
(***************************************************************************)
DEBOUNCE_DELAY_MS == 500

MIN_PROMPT_LENGTH == 15

OBSERVER_RETRY_MS == 1000

INITIAL_CHECK_MS == 1000

COPY_RESET_MS == 2000

\* the clock advances in steps of half the debounce delay, so that a call
\* can arrive part of the way through the wait
Quantum == DEBOUNCE_DELAY_MS \div 2

NoTimer == -1

(***************************************************************************)
(* State                                                                   *)
(***************************************************************************)
VARIABLES
    lastAnalyzedPrompt,  \* state.lastAnalyzedPrompt
    overlayVisible,      \* state.overlayVisible
    processedMessages,   \* state.processedMessages
    userMessage,         \* the page: the last user message, a member of Pages
    targetPresent,       \* document.querySelector('body') finds the element
    dom,                 \* the elements with id promptmentor-overlay under body
    observerInstalled,   \* observer.observe(targetNode, config) has run
    mutationPending,     \* mutation records wait for the observer callback
    debounceTimer,       \* time left until the debounced check, or NoTimer
    initialCheckTimer,   \* setTimeout(checkForExecutiveHelpSeeking, 1000)
    retryTimer,          \* setTimeout(initMutationObserver, 1000)
    copyOp,              \* the clipboard write awaited by the copy handler
    copyResetTimer,      \* the 2 s timer that restores the copy label
    copyResetTarget,     \* whether that timer's button is still attached
    sinceLastCall,       \* time since the last debouncedCheck() call
    burstCalls,          \* debouncedCheck() calls not yet answered by a run
    firesSinceCall,      \* debounced checks run since the last call
    prevExtracted,       \* the text the previous check extracted
    shownFor,            \* the texts an overlay has been displayed for
    classifier,          \* a call of analyzePrompt: its argument and result
    ev                   \* what the last step did (the console.log lines)

vars ==
    << lastAnalyzedPrompt, overlayVisible, processedMessages, userMessage,
       targetPresent, dom, observerInstalled, mutationPending, debounceTimer,
       initialCheckTimer, retryTimer, copyOp, copyResetTimer, copyResetTarget,
       sinceLastCall, burstCalls, firesSinceCall, prevExtracted, shownFor, classifier,
       ev >>

\* the log of a step that ran no check
NoLog ==
    [outcome |-> "none", promptText |-> <<>>, analyzed |-> FALSE,
     overlay |-> FALSE, adaptive |-> FALSE]

\* the longest burst of calls that is counted
MaxBurst == 2

\* sameAsPrev: the check extracted the text the previous check extracted;
\* burst: the number of debouncedCheck() calls the run answers
Event(op, log) == [op |-> op, sameAsPrev |-> FALSE, burst |-> 0] @@ log

NoExtraction == [has |-> FALSE, text |-> <<>>]

\* the result object before the loops of analyzePrompt have run
NoResult ==
    [isExecutive |-> FALSE, isAdaptive |-> FALSE, executivePatterns |-> <<>>,
     adaptivePatterns |-> <<>>, suggestions |-> <<>>]

\* analyzePrompt is not being called on its own
NoCall == [pc |-> "idle", promptText |-> <<>>, result |-> NoResult]

Min(S) == CHOOSE x \in S : \A y \in S : x <= y

(***************************************************************************)
(* The overlay panel                                                       *)
(***************************************************************************)
DefaultSuggestion ==
    "Can you give me a hint about how to approach this problem?"

DefaultWarning ==
    "This prompt might give you the answer without helping you learn."

\* the element is removed but the flag is not cleared
removeOverlayPanelKeepsFlag(d, visible) ==
    IF Len(d) > 0
    THEN [dom |-> Tail(d), overlayVisible |-> visible, removed |-> TRUE]
    ELSE [dom |-> d, overlayVisible |-> visible, removed |-> FALSE]

\* removeOverlayPanel: removes the first element with the overlay id
removeOverlayPanel(d, visible) ==
    IF Len(d) > 0
    THEN [dom |-> Tail(d), overlayVisible |-> FALSE, removed |-> TRUE]
    ELSE [dom |-> d, overlayVisible |-> visible, removed |-> FALSE]

\* the overlay filled from the last pattern and suggestion, not the first
createOverlayPanelLastMatch(analysis, originalPrompt, d, visible) ==
    LET r == removeOverlayPanel(d, visible)
        suggestion ==
            IF Len(analysis.suggestions) > 0
            THEN analysis.suggestions[Len(analysis.suggestions)]
            ELSE DefaultSuggestion
        warningMessage ==
            IF Len(analysis.executivePatterns) > 0
            THEN analysis.executivePatterns[
                     Len(analysis.executivePatterns)].message
            ELSE DefaultWarning
        overlay == [warningMessage |-> warningMessage,
                    suggestion |-> suggestion,
                    questions |-> "ask",
                    copyLabel |-> "Copy Suggestion"]
    IN  [dom |-> Append(r.dom, overlay), overlayVisible |-> TRUE,
         removed |-> r.removed]

\* the overlay appended without state.overlayVisible being set
createOverlayPanelNoFlag(analysis, originalPrompt, d, visible) ==
    LET r == removeOverlayPanel(d, visible)
        suggestion ==
            IF Len(analysis.suggestions) > 0
            THEN analysis.suggestions[1] ELSE DefaultSuggestion
        warningMessage ==
            IF Len(analysis.executivePatterns) > 0
            THEN analysis.executivePatterns[1].message ELSE DefaultWarning
        overlay == [warningMessage |-> warningMessage,
                    suggestion |-> suggestion,
                    questions |-> "ask",
                    copyLabel |-> "Copy Suggestion"]
    IN  [dom |-> Append(r.dom, overlay), overlayVisible |-> r.overlayVisible,
         removed |-> r.removed]

\* createOverlayPanel(analysis, originalPrompt)
createOverlayPanel(analysis, originalPrompt, d, visible) ==
    LET r == removeOverlayPanel(d, visible)
        suggestion ==
            IF Len(analysis.suggestions) > 0
            THEN analysis.suggestions[1] ELSE DefaultSuggestion
        warningMessage ==
            IF Len(analysis.executivePatterns) > 0
            THEN analysis.executivePatterns[1].message ELSE DefaultWarning
        overlay == [warningMessage |-> warningMessage,
                    suggestion |-> suggestion,
                    questions |-> "ask",
                    copyLabel |-> "Copy Suggestion"]
    IN  [dom |-> Append(r.dom, overlay), overlayVisible |-> TRUE,
         removed |-> r.removed]

\* an element that a removal took out of the document stays referenced by
\* the closures of its handlers
Detach(target, removed) ==
    IF removed /\ target = "attached" THEN "detached" ELSE target

(***************************************************************************)
(* checkForExecutiveHelpSeeking                                            *)
(***************************************************************************)
\* the comparison with the stored prompt left out
AlreadyAnalyzedNever(promptText, last) == FALSE

\* promptText === state.lastAnalyzedPrompt
AlreadyAnalyzed(promptText, last) == promptText = last

\* an off-by-one threshold: <= instead of <
TooShortInclusive(promptText) == Len(promptText) <= MIN_PROMPT_LENGTH

\* promptText.length < 15
TooShort(promptText) == Len(promptText) < MIN_PROMPT_LENGTH

\* the visibility test left out
ShowsOverlayAlways(analysis, visible) == analysis.isExecutive

\* an adaptive match taking precedence over the executive one
ShowsOverlayUnlessAdaptive(analysis, visible) ==
    analysis.isExecutive /\ ~analysis.isAdaptive /\ ~visible

\* analysis.isExecutive && !state.overlayVisible
ShowsOverlay(analysis, visible) == analysis.isExecutive /\ ~visible

\* the assignment left out: the state keeps the old text
MarkAnalyzedForgotten(promptText, last) == last

\* the value stored by state.lastAnalyzedPrompt = promptText
MarkAnalyzed(promptText, last) == promptText

\* the text is recorded only when its overlay is displayed
ActOnAnalysisRecordsWhenShown(analysis, promptText, last, visible, d) ==
    LET log == [NoLog EXCEPT !.outcome = "analyzed",
                             !.promptText = promptText,
                             !.analyzed = TRUE]
        kept == [lastAnalyzedPrompt |-> last, overlayVisible |-> visible,
                 dom |-> d, mutated |-> FALSE, removed |-> FALSE]
    IN  IF ShowsOverlay(analysis, visible)
        THEN [lastAnalyzedPrompt |-> MarkAnalyzed(promptText, last),
              mutated |-> TRUE,
              log |-> [log EXCEPT !.overlay = TRUE]]
                 @@ createOverlayPanel(analysis, promptText, d, visible)
        ELSE IF analysis.isAdaptive
        THEN kept @@ [log |-> [log EXCEPT !.adaptive = TRUE]]
        ELSE kept @@ [log |-> log]

\* lines 319-327: what the check does with the analysis of promptText
ActOnAnalysis(analysis, promptText, last, visible, d) ==
    LET marked == MarkAnalyzed(promptText, last)
        log == [NoLog EXCEPT !.outcome = "analyzed",
                             !.promptText = promptText,
                             !.analyzed = TRUE]
        kept == [lastAnalyzedPrompt |-> marked, overlayVisible |-> visible,
                 dom |-> d, mutated |-> FALSE, removed |-> FALSE]
    IN  IF ShowsOverlay(analysis, visible)
        THEN [lastAnalyzedPrompt |-> marked, mutated |-> TRUE,
              log |-> [log EXCEPT !.overlay = TRUE]]
                 @@ createOverlayPanel(analysis, promptText, d, visible)
        ELSE IF analysis.isAdaptive
        THEN kept @@ [log |-> [log EXCEPT !.adaptive = TRUE]]
        ELSE kept @@ [log |-> log]

\* lines 298-312: what the check does with the text it extracted
ActOnText(promptText, last, visible, d) ==
    LET unchanged == [lastAnalyzedPrompt |-> last, overlayVisible |-> visible,
                      dom |-> d, mutated |-> FALSE, removed |-> FALSE]
    IN  IF AlreadyAnalyzed(promptText, last)
        THEN unchanged @@ [log |-> [NoLog EXCEPT !.outcome = "duplicate",
                                                 !.promptText = promptText]]
        ELSE IF TooShort(promptText)
        THEN unchanged @@ [log |-> [NoLog EXCEPT !.outcome = "short",
                                                 !.promptText = promptText]]
        ELSE ActOnAnalysis(Analysis[promptText], promptText, last, visible, d)

\* a check that forgets the analyzed prompt when the page has no message
checkForExecutiveHelpSeekingForgetsWhenAbsent(page, last, visible, d) ==
    IF page.found = "content"
    THEN ActOnText(Trim(page.textContent), last, visible, d)
    ELSE [lastAnalyzedPrompt |-> <<>>, overlayVisible |-> visible,
          dom |-> d, mutated |-> FALSE, removed |-> FALSE,
          log |-> [NoLog EXCEPT !.outcome = page.found]]

\* the check as a function of the page and the state: the new state, whether
\* the document was changed, and the log of the run
checkForExecutiveHelpSeeking(page, last, visible, d) ==
    IF page.found = "content"
    THEN ActOnText(Trim(page.textContent), last, visible, d)
    ELSE [lastAnalyzedPrompt |-> last, overlayVisible |-> visible,
          dom |-> d, mutated |-> FALSE, removed |-> FALSE,
          log |-> [NoLog EXCEPT !.outcome = page.found]]

(***************************************************************************)
(* Initial state: init() has run                                           *)
(***************************************************************************)
Init ==
    /\ lastAnalyzedPrompt = <<>>
    /\ overlayVisible = FALSE
    /\ processedMessages = {}
    /\ targetPresent \in BOOLEAN
    /\ userMessage \in (IF targetPresent THEN Pages ELSE {NoMessage})
    /\ dom = <<>>
    /\ observerInstalled = targetPresent
    /\ retryTimer = (IF targetPresent THEN NoTimer ELSE OBSERVER_RETRY_MS)
    /\ initialCheckTimer = INITIAL_CHECK_MS
    /\ mutationPending = FALSE
    /\ debounceTimer = NoTimer
    /\ copyOp = "idle"
    /\ copyResetTimer = NoTimer
    /\ copyResetTarget = "none"
    /\ sinceLastCall = -1
    /\ burstCalls = 0
    /\ firesSinceCall = 0
    /\ prevExtracted = NoExtraction
    /\ shownFor = {}
    /\ classifier = NoCall
    /\ ev = Event("init", NoLog)

(***************************************************************************)
(* The debounced check                                                     *)
(***************************************************************************)
\* a call while the timer is pending does not restart the wait
debouncedCheckNoRestart(timer) ==
    IF timer = NoTimer THEN DEBOUNCE_DELAY_MS ELSE timer

\* debouncedCheck(): every call restarts the wait (trailing edge, no maxWait)
debouncedCheck(timer) == DEBOUNCE_DELAY_MS

\* the variables that only the check and the overlay handlers change
UnchangedPanel ==
    UNCHANGED << lastAnalyzedPrompt, overlayVisible, dom, copyOp,
                 copyResetTarget, prevExtracted, shownFor >>

UnchangedObserver ==
    UNCHANGED << targetPresent, observerInstalled, retryTimer >>

\* the MutationObserver callback: a microtask, delivered after the step that
\* changed the document and before any other task runs
ObserverCallback ==
    /\ mutationPending
    /\ mutationPending' = FALSE
    /\ debounceTimer' = debouncedCheck(debounceTimer)
    /\ sinceLastCall' = 0
    /\ burstCalls' = (IF debounceTimer = NoTimer THEN 1
                      ELSE Min({burstCalls + 1, MaxBurst}))
    /\ firesSinceCall' = 0
    /\ ev' = Event("onChange", NoLog)
    /\ UnchangedPanel
    /\ UnchangedObserver
    /\ UNCHANGED << classifier, processedMessages, userMessage, initialCheckTimer,
                    copyResetTimer >>

\* the effect of a run of checkForExecutiveHelpSeeking that returned r
ApplyCheck(op, r) ==
    /\ lastAnalyzedPrompt' = r.lastAnalyzedPrompt
    /\ overlayVisible' = r.overlayVisible
    /\ dom' = r.dom
    /\ mutationPending' = (r.mutated /\ observerInstalled)
    /\ copyOp' = Detach(copyOp, r.removed)
    /\ copyResetTarget' = Detach(copyResetTarget, r.removed)
    /\ prevExtracted' =
           IF r.log.outcome \in {"noMessage", "noContent"}
           THEN NoExtraction
           ELSE [has |-> TRUE, text |-> r.log.promptText]
    /\ shownFor' =
           IF r.log.overlay THEN shownFor \cup {r.log.promptText}
           ELSE shownFor
    /\ ev' = [Event(op, r.log) EXCEPT
                  !.burst = IF op = "debouncedCheck" THEN burstCalls ELSE 0,
                  !.sameAsPrev = /\ r.log.outcome
                                       \notin {"noMessage", "noContent"}
                                 /\ prevExtracted.has
                                 /\ prevExtracted.text = r.log.promptText]

\* a run of checkForExecutiveHelpSeeking on the page as it is
RunCheck(op) ==
    ApplyCheck(op, checkForExecutiveHelpSeeking(userMessage,
                       lastAnalyzedPrompt, overlayVisible, dom))

\* the debounce timer expires: checkForExecutiveHelpSeeking runs
DebounceFire ==
    /\ ~mutationPending
    /\ debounceTimer = 0
    /\ debounceTimer' = NoTimer
    /\ burstCalls' = 0
    /\ firesSinceCall' = firesSinceCall + 1
    /\ RunCheck("debouncedCheck")
    /\ UnchangedObserver
    /\ UNCHANGED << classifier, processedMessages, userMessage, initialCheckTimer,
                    copyResetTimer, sinceLastCall >>

\* the initial check on an interval instead of a single timeout
InitialCheckRepeats ==
    /\ ~mutationPending
    /\ initialCheckTimer = 0
    /\ initialCheckTimer' = INITIAL_CHECK_MS
    /\ RunCheck("initialCheck")
    /\ UnchangedObserver
    /\ UNCHANGED << classifier, processedMessages, userMessage, debounceTimer,
                    copyResetTimer, sinceLastCall,
                    burstCalls, firesSinceCall >>

\* init: setTimeout(checkForExecutiveHelpSeeking, 1000)
InitialCheck ==
    /\ ~mutationPending
    /\ initialCheckTimer = 0
    /\ initialCheckTimer' = NoTimer
    /\ RunCheck("initialCheck")
    /\ UnchangedObserver
    /\ UNCHANGED << classifier, processedMessages, userMessage, debounceTimer,
                    copyResetTimer, sinceLastCall,
                    burstCalls, firesSinceCall >>

(***************************************************************************)
(* initMutationObserver and its retry                                      *)
(***************************************************************************)
\* a retry that is scheduled again after the observer has been installed
RetryObserverKeepsRetrying ==
    /\ ~mutationPending
    /\ retryTimer = 0
    /\ observerInstalled' = targetPresent
    /\ retryTimer' = OBSERVER_RETRY_MS
    /\ ev' = Event("initMutationObserver", NoLog)
    /\ UnchangedPanel
    /\ UNCHANGED << classifier, processedMessages, userMessage, targetPresent,
                    mutationPending, debounceTimer, initialCheckTimer,
                    copyResetTimer, sinceLastCall,
                    burstCalls, firesSinceCall >>

\* the timer of setTimeout(initMutationObserver, 1000) expires:
\* initMutationObserver runs again
RetryObserver ==
    /\ ~mutationPending
    /\ retryTimer = 0
    /\ IF targetPresent
       THEN observerInstalled' = TRUE /\ retryTimer' = NoTimer
       ELSE observerInstalled' = FALSE /\ retryTimer' = OBSERVER_RETRY_MS
    /\ ev' = Event("initMutationObserver", NoLog)
    /\ UnchangedPanel
    /\ UNCHANGED << classifier, processedMessages, userMessage, targetPresent,
                    mutationPending, debounceTimer, initialCheckTimer,
                    copyResetTimer, sinceLastCall,
                    burstCalls, firesSinceCall >>

(***************************************************************************)
(* The page                                                                *)
(***************************************************************************)
\* the body element appears
TargetAppears ==
    /\ ~mutationPending
    /\ ~targetPresent
    /\ targetPresent' = TRUE
    /\ ev' = Event("targetAppears", NoLog)
    /\ UnchangedPanel
    /\ UNCHANGED << classifier, processedMessages, userMessage, observerInstalled,
                    retryTimer, mutationPending, debounceTimer,
                    initialCheckTimer, copyResetTimer, sinceLastCall,
                    burstCalls, firesSinceCall >>

\* the page changes under body; p is the last user message afterwards
HostMutation(p) ==
    /\ ~mutationPending
    /\ targetPresent
    /\ userMessage' = p
    /\ mutationPending' = observerInstalled
    /\ ev' = Event("hostMutation", NoLog)
    /\ UnchangedPanel
    /\ UnchangedObserver
    /\ UNCHANGED << classifier, processedMessages, debounceTimer, initialCheckTimer,
                    copyResetTimer, sinceLastCall,
                    burstCalls, firesSinceCall >>

(***************************************************************************)
(* The handlers of the overlay buttons (setupOverlayEventListeners)        *)
(***************************************************************************)
UnchangedTimers ==
    UNCHANGED << debounceTimer, initialCheckTimer, sinceLastCall,
                 burstCalls, firesSinceCall >>

\* a dismissal that also forgets the analyzed prompt
DismissForgetsPrompt(op) ==
    LET r == removeOverlayPanel(dom, overlayVisible)
    IN  /\ ~mutationPending
        /\ Len(dom) > 0
        /\ dom' = r.dom
        /\ overlayVisible' = r.overlayVisible
        /\ lastAnalyzedPrompt' = <<>>
        /\ mutationPending' = (r.removed /\ observerInstalled)
        /\ copyOp' = Detach(copyOp, r.removed)
        /\ copyResetTarget' = Detach(copyResetTarget, r.removed)
        /\ ev' = Event(op, NoLog)
        /\ UnchangedTimers
        /\ UnchangedObserver
        /\ UNCHANGED << classifier, processedMessages, userMessage, copyResetTimer,
                        prevExtracted, shownFor >>

\* removeOverlayPanel() called from a click handler
Dismiss(op) ==
    LET r == removeOverlayPanel(dom, overlayVisible)
    IN  /\ ~mutationPending
        /\ Len(dom) > 0
        /\ dom' = r.dom
        /\ overlayVisible' = r.overlayVisible
        /\ mutationPending' = (r.removed /\ observerInstalled)
        /\ copyOp' = Detach(copyOp, r.removed)
        /\ copyResetTarget' = Detach(copyResetTarget, r.removed)
        /\ ev' = Event(op, NoLog)
        /\ UnchangedTimers
        /\ UnchangedObserver
        /\ UNCHANGED << classifier, lastAnalyzedPrompt, processedMessages, userMessage,
                        copyResetTimer, prevExtracted, shownFor >>

\* the close button
CloseClick == Dismiss("close")

\* "Show AI Response Anyway"
ProceedClick == Dismiss("proceed")

\* an answer button that also removes the panel
AnswerRemovesPanel(op, answer) == Dismiss(op)

\* "Yes, I tried" / "No, not yet": the questions block is rewritten
Answer(op, answer) ==
    /\ ~mutationPending
    /\ Len(dom) > 0
    /\ dom[1].questions = "ask"
    /\ dom' = [dom EXCEPT ![1].questions = answer]
    /\ mutationPending' = observerInstalled
    /\ ev' = Event(op, NoLog)
    /\ UnchangedTimers
    /\ UnchangedObserver
    /\ UNCHANGED << classifier, lastAnalyzedPrompt, overlayVisible, processedMessages,
                    userMessage, copyOp, copyResetTimer, copyResetTarget,
                    prevExtracted, shownFor >>

YesClick == Answer("yes", "positive")

NoClick == Answer("no", "encouragement")

\* the copy button: navigator.clipboard.writeText(suggestion) is started;
\* one copy is followed at a time, up to the reset of its label
CopyClick ==
    /\ ~mutationPending
    /\ Len(dom) > 0
    /\ copyOp = "idle"
    /\ copyResetTimer = NoTimer
    /\ copyOp' = "attached"
    /\ ev' = Event("copy", NoLog)
    /\ UnchangedTimers
    /\ UnchangedObserver
    /\ UNCHANGED << classifier, lastAnalyzedPrompt, overlayVisible, processedMessages,
                    userMessage, dom, mutationPending, copyResetTimer,
                    copyResetTarget, prevExtracted, shownFor >>

\* copyBtn.textContent = label, on the button the closure holds
SetCopyLabel(d, target, label) ==
    IF target = "attached" /\ Len(d) > 0
    THEN [d EXCEPT ![1].copyLabel = label] ELSE d

\* a failed clipboard write that closes the panel
CopySettleClosesOnFailure(ok) ==
    LET r == removeOverlayPanel(dom, overlayVisible)
    IN  /\ ~mutationPending
        /\ copyOp # "idle"
        /\ copyOp' = "idle"
        /\ IF ok
           THEN /\ dom' = SetCopyLabel(dom, copyOp, "Copied!")
                /\ copyResetTimer' = COPY_RESET_MS
                /\ copyResetTarget' = copyOp
                /\ overlayVisible' = overlayVisible
                /\ mutationPending' = (copyOp = "attached" /\ observerInstalled)
                /\ ev' = Event("copied", NoLog)
           ELSE /\ dom' = r.dom
                /\ overlayVisible' = r.overlayVisible
                /\ copyResetTimer' = copyResetTimer
                /\ copyResetTarget' = Detach(copyResetTarget, r.removed)
                /\ mutationPending' = (r.removed /\ observerInstalled)
                /\ ev' = Event("copyFailed", NoLog)
        /\ UnchangedTimers
        /\ UnchangedObserver
        /\ UNCHANGED << classifier, lastAnalyzedPrompt, processedMessages, userMessage,
                        prevExtracted, shownFor >>

\* the clipboard write settles: the rest of the handler runs
CopySettle(ok) ==
    /\ ~mutationPending
    /\ copyOp # "idle"
    /\ copyOp' = "idle"
    /\ IF ok
       THEN /\ dom' = SetCopyLabel(dom, copyOp, "Copied!")
            /\ copyResetTimer' = COPY_RESET_MS
            /\ copyResetTarget' = copyOp
            /\ ev' = Event("copied", NoLog)
       ELSE /\ dom' = SetCopyLabel(dom, copyOp, "Failed to copy")
            /\ UNCHANGED << copyResetTimer, copyResetTarget >>
            /\ ev' = Event("copyFailed", NoLog)
    /\ mutationPending' = (copyOp = "attached" /\ observerInstalled)
    /\ UnchangedTimers
    /\ UnchangedObserver
    /\ UNCHANGED << classifier, lastAnalyzedPrompt, overlayVisible, processedMessages,
                    userMessage, prevExtracted, shownFor >>

\* setTimeout(() => { copyBtn.textContent = 'Copy Suggestion' }, 2000)
CopyReset ==
    /\ ~mutationPending
    /\ copyResetTimer = 0
    /\ copyResetTimer' = NoTimer
    /\ copyResetTarget' = "none"
    /\ dom' = SetCopyLabel(dom, copyResetTarget, "Copy Suggestion")
    /\ mutationPending' = (copyResetTarget = "attached" /\ observerInstalled)
    /\ ev' = Event("copyReset", NoLog)
    /\ UnchangedTimers
    /\ UnchangedObserver
    /\ UNCHANGED << classifier, lastAnalyzedPrompt, overlayVisible, processedMessages,
                    userMessage, copyOp, prevExtracted, shownFor >>

(***************************************************************************)
(* Time                                                                    *)
(***************************************************************************)
Timers == {debounceTimer, initialCheckTimer, retryTimer, copyResetTimer}

Elapse(timer, d) == IF timer = NoTimer THEN NoTimer ELSE timer - d

\* time passes, never beyond the next timer that is due; a due timer runs
\* before the clock moves on
Tick ==
    /\ ~mutationPending
    /\ 0 \notin Timers
    /\ \E t \in Timers : t > 0
    /\ LET d == Min({Quantum} \cup {t \in Timers : t > 0})
       IN  /\ debounceTimer' = Elapse(debounceTimer, d)
           /\ initialCheckTimer' = Elapse(initialCheckTimer, d)
           /\ retryTimer' = Elapse(retryTimer, d)
           /\ copyResetTimer' = Elapse(copyResetTimer, d)
           /\ sinceLastCall' =
                  IF sinceLastCall = -1 THEN -1
                  ELSE Min({sinceLastCall + d, DEBOUNCE_DELAY_MS})
    /\ ev' = Event("tick", NoLog)
    /\ UnchangedPanel
    /\ UNCHANGED << classifier, processedMessages, userMessage, targetPresent,
                    observerInstalled, mutationPending, burstCalls,
                    firesSinceCall >>

Next ==
    \/ ObserverCallback
    \/ DebounceFire
    \/ InitialCheck
    \/ RetryObserver
    \/ TargetAppears
    \/ \E p \in Pages : HostMutation(p)
    \/ CloseClick
    \/ ProceedClick
    \/ YesClick
    \/ NoClick
    \/ CopyClick
    \/ \E ok \in BOOLEAN : CopySettle(ok)
    \/ CopyReset
    \/ Tick

Spec == Init /\ [][Next]_vars

(***************************************************************************)
(* The program under a fair event loop, on a page that shows one of three  *)
(* last user messages                                                      *)
(***************************************************************************)
\* no content element, a text that is too short, an executive prompt
FairPages ==
    { NoContent,
      [found |-> "content", textContent |-> Text14],
      [found |-> "content", textContent |-> TextWritePadded] }

FairInit == Init /\ userMessage \in FairPages \cup {NoMessage}

FairNext ==
    \/ ObserverCallback
    \/ DebounceFire
    \/ InitialCheck
    \/ RetryObserver
    \/ TargetAppears
    \/ \E p \in FairPages : HostMutation(p)
    \/ CloseClick
    \/ ProceedClick
    \/ YesClick
    \/ NoClick
    \/ CopyClick
    \/ \E ok \in BOOLEAN : CopySettle(ok)
    \/ CopyReset
    \/ Tick

\* the event loop: a pending observer callback is delivered, a timer that is
\* due runs, a clipboard write settles, and time passes; what the page and
\* the user do is left open
FairSpec ==
    /\ FairInit
    /\ [][FairNext]_vars
    /\ WF_vars(ObserverCallback)
    /\ WF_vars(DebounceFire)
    /\ WF_vars(InitialCheck)
    /\ WF_vars(RetryObserver)
    /\ WF_vars(\E ok \in BOOLEAN : CopySettle(ok))
    /\ WF_vars(CopyReset)
    /\ WF_vars(Tick)

(***************************************************************************)
(* analyzePrompt on its own: called with each of ClassifierInputs          *)
(***************************************************************************)
InitClassify ==
    /\ classifier \in {[pc |-> "called", promptText |-> t, result |-> NoResult] :
                          t \in ClassifierInputs}
    /\ lastAnalyzedPrompt = <<>>
    /\ overlayVisible = FALSE
    /\ processedMessages = {}
    /\ targetPresent = TRUE
    /\ userMessage = NoMessage
    /\ dom = <<>>
    /\ observerInstalled = TRUE
    /\ retryTimer = NoTimer
    /\ initialCheckTimer = INITIAL_CHECK_MS
    /\ mutationPending = FALSE
    /\ debounceTimer = NoTimer
    /\ copyOp = "idle"
    /\ copyResetTimer = NoTimer
    /\ copyResetTarget = "none"
    /\ sinceLastCall = -1
    /\ burstCalls = 0
    /\ firesSinceCall = 0
    /\ prevExtracted = NoExtraction
    /\ shownFor = {}
    /\ ev = Event("init", NoLog)

\* analyzePrompt(promptText) returns
AnalyzeReturn ==
    /\ classifier.pc = "called"
    /\ classifier' = [classifier EXCEPT
                         !.pc = "returned",
                         !.result = analyzePrompt(classifier.promptText)]
    /\ UNCHANGED << lastAnalyzedPrompt, overlayVisible, processedMessages,
                    userMessage, targetPresent, dom, observerInstalled,
                    mutationPending, debounceTimer, initialCheckTimer,
                    retryTimer, copyOp, copyResetTimer, copyResetTarget,
                    sinceLastCall, burstCalls, firesSinceCall, prevExtracted,
                    shownFor, ev >>

NextClassify == AnalyzeReturn

SpecClassify == InitClassify /\ [][NextClassify]_vars

(***************************************************************************)
(* Properties                                                              *)
(***************************************************************************)
CheckOps == {"debouncedCheck", "initialCheck"}

\* the step is a run of checkForExecutiveHelpSeeking that read a text
Extracted(e) ==
    e.op \in CheckOps /\ e.outcome \notin {"none", "noMessage", "noContent"}

\* C1: a burst of debouncedCheck() calls gets exactly one run of the check:
\* the debounced check runs only when a full DEBOUNCE_DELAY_MS has passed
\* since the last call of the burst, one run answers all calls of the burst,
\* and the timer is pending exactly while calls are unanswered.
C1_Quiescence ==
    [][ /\ (ev'.op = "debouncedCheck") =>
              /\ sinceLastCall = DEBOUNCE_DELAY_MS
              /\ burstCalls >= 1
              /\ ev'.burst = burstCalls
              /\ firesSinceCall' = 1
              /\ debounceTimer' = NoTimer
        /\ (debounceTimer' # NoTimer) <=> (burstCalls' >= 1)
        /\ (debounceTimer' # NoTimer) => (firesSinceCall' = 0)
        /\ (debounceTimer' = NoTimer /\ sinceLastCall' # -1) =>
              (firesSinceCall' = 1)
      ]_vars

\* a burst of at least two calls has had its single run
C1_Witness ==
    /\ ev.op = "debouncedCheck"
    /\ ev.burst >= 2
    /\ firesSinceCall = 1
    /\ debounceTimer = NoTimer

\* C2: when a check extracts the text the previous check extracted, it does
\* not call analyzePrompt and leaves state.lastAnalyzedPrompt and
\* state.overlayVisible as they were.
C2_Dedup ==
    [][ (Extracted(ev') /\ ev'.sameAsPrev) =>
            /\ ~ev'.analyzed
            /\ lastAnalyzedPrompt' = lastAnalyzedPrompt
            /\ overlayVisible' = overlayVisible
      ]_vars

\* the second of two debounced checks of one analyzable text was dropped as
\* a duplicate of the first
C2_Witness ==
    /\ ev.op = "debouncedCheck"
    /\ ev.sameAsPrev
    /\ ev.outcome = "duplicate"
    /\ ev.promptText = TextWrite
    /\ lastAnalyzedPrompt = TextWrite

\* C3: a check that extracts at most 14 characters never calls analyzePrompt
\* and leaves state.lastAnalyzedPrompt alone; a check that extracts 15
\* characters that differ from state.lastAnalyzedPrompt calls analyzePrompt.
C3_MinimumLength ==
    [][ /\ (Extracted(ev') /\ Len(ev'.promptText) <= 14) =>
              /\ ~ev'.analyzed
              /\ lastAnalyzedPrompt' = lastAnalyzedPrompt
        /\ (Extracted(ev') /\ Len(ev'.promptText) = 15
              /\ ev'.promptText # lastAnalyzedPrompt) =>
              ev'.analyzed
      ]_vars

\* a text of 14 characters was just dropped and the text of 15 characters is
\* the one analyzed before it
C3_Witness ==
    /\ ev.op \in CheckOps
    /\ ev.outcome = "short"
    /\ Len(ev.promptText) = 14
    /\ Len(lastAnalyzedPrompt) = 15

\* C4: while state.overlayVisible is true no check displays an overlay; when
\* no overlay is in the document (none was displayed yet, or a close or
\* proceed click removed it) a check that analyzes an executive text
\* displays the overlay and sets state.overlayVisible to true.
C4_MutualExclusion ==
    [][ /\ (ev'.op \in CheckOps /\ overlayVisible) =>
              (~ev'.overlay /\ dom' = dom)
        /\ (ev'.op \in CheckOps /\ ev'.analyzed /\ Len(dom) = 0
              /\ Analysis[ev'.promptText].isExecutive) =>
              (ev'.overlay /\ overlayVisible' /\ Len(dom') = 1)
      ]_vars

\* a second overlay is displayed (so the first was dismissed) and an
\* executive text analyzed while it is displayed got no overlay
C4_Witness ==
    /\ Cardinality(shownFor) >= 2
    /\ overlayVisible
    /\ ev.op \in CheckOps
    /\ ev.analyzed
    /\ Analysis[ev.promptText].isExecutive
    /\ ~ev.overlay

\* C5: at most one overlay is displayed per distinct prompt text: a check
\* never displays an overlay for a text an overlay was displayed for before,
\* also when another text was analyzed in between.
C5_OnePerText ==
    [][ (ev'.op \in CheckOps /\ ev'.overlay) =>
            ev'.promptText \notin shownFor
      ]_vars

\* C6 as stated: while state.overlayVisible is true a check that analyzes a
\* text displays no overlay and logs no adaptive detection either, and
\* state.overlayVisible stays true.
C6_NothingWhileActive ==
    [][ (ev'.op \in CheckOps /\ ev'.analyzed /\ overlayVisible) =>
            (~ev'.overlay /\ ~ev'.adaptive /\ overlayVisible')
      ]_vars

\* C6 amended: while state.overlayVisible is true a check that analyzes a
\* text displays no overlay and leaves the overlay and state.overlayVisible
\* as they are, whatever the flags; the adaptive detection is logged exactly
\* when isAdaptive is true.
C6_NoOverlayWhileActive ==
    [][ (ev'.op \in CheckOps /\ ev'.analyzed /\ overlayVisible) =>
            /\ ~ev'.overlay
            /\ overlayVisible'
            /\ dom' = dom
            /\ ~mutationPending'
            /\ ev'.adaptive = Analysis[ev'.promptText].isAdaptive
      ]_vars

\* a text that is executive and adaptive was analyzed while the overlay was
\* displayed: no overlay, and the adaptive detection was logged
C6_Witness ==
    /\ ev.op \in CheckOps
    /\ ev.analyzed
    /\ ev.promptText = TextTried
    /\ ev.adaptive
    /\ ~ev.overlay
    /\ overlayVisible
    /\ shownFor = {TextWrite}

\* C7: when state.overlayVisible is false the flags of the analysis decide:
\* isExecutive displays the overlay and sets state.overlayVisible, with or
\* without isAdaptive; isAdaptive alone only logs the adaptive detection;
\* neither flag displays and logs nothing.
C7_FlagsDecide ==
    [][ (ev'.op \in CheckOps /\ ev'.analyzed /\ ~overlayVisible) =>
            LET analysis == Analysis[ev'.promptText]
            IN  /\ analysis.isExecutive =>
                      (ev'.overlay /\ overlayVisible' /\ ~ev'.adaptive)
                /\ (~analysis.isExecutive /\ analysis.isAdaptive) =>
                      (~ev'.overlay /\ ev'.adaptive /\ ~overlayVisible'
                         /\ dom' = dom)
                /\ (~analysis.isExecutive /\ ~analysis.isAdaptive) =>
                      (~ev'.overlay /\ ~ev'.adaptive /\ ~overlayVisible'
                         /\ dom' = dom)
      ]_vars

\* the first overlay was displayed for a text with both flags set
C7_Witness ==
    /\ ev.op \in CheckOps
    /\ ev.promptText = TextTried
    /\ Analysis[TextTried].isExecutive
    /\ Analysis[TextTried].isAdaptive
    /\ ev.overlay
    /\ ~ev.adaptive
    /\ overlayVisible
    /\ shownFor = {TextTried}

\* C8: state.overlayVisible goes from true to false only in a step of the
\* close button or of "Show AI Response Anyway".
C8_OnlyDismissalClears ==
    [][ (overlayVisible /\ ~overlayVisible') =>
            ev'.op \in {"close", "proceed"}
      ]_vars

\* with the overlay displayed and one of the questions answered, a debounced
\* check analyzed a new text and the overlay is still displayed
C8_Witness ==
    /\ overlayVisible
    /\ Len(dom) = 1
    /\ dom[1].questions # "ask"
    /\ ev.op = "debouncedCheck"
    /\ ev.analyzed

C10_CopyFrame ==
    [][ /\ (ev'.op \in {"copy", "copied", "copyFailed", "copyReset"}) =>
              /\ lastAnalyzedPrompt' = lastAnalyzedPrompt
              /\ overlayVisible' = overlayVisible
        /\ (ev'.op = "copyFailed") =>
              /\ \/ dom' = dom
                 \/ /\ Len(dom) = 1
                    /\ dom' = [dom EXCEPT ![1].copyLabel = "Failed to copy"]
              /\ UNCHANGED << debounceTimer, initialCheckTimer, retryTimer,
                              copyResetTimer, userMessage, prevExtracted,
                              shownFor, processedMessages >>
      ]_vars

\* a clipboard write failed while the overlay was displayed
C10_Witness ==
    /\ ev.op = "copyFailed"
    /\ overlayVisible
    /\ Len(dom) = 1
    /\ dom[1].copyLabel = "Failed to copy"
    /\ lastAnalyzedPrompt # <<>>

C12_NothingDuringBurst ==
    [][ /\ (ev'.op = "onChange") => (debounceTimer' = DEBOUNCE_DELAY_MS)
        /\ (ev'.outcome # "none") =>
              ~(sinceLastCall >= 0 /\ sinceLastCall < DEBOUNCE_DELAY_MS)
      ]_vars

\* C12 amended: the wait is measured from the last debouncedCheck() call
\* alone, however long the burst: every call restarts the full wait and runs
\* no check, a pending timer stays pending while the last call is less than
\* DEBOUNCE_DELAY_MS old, and the only check that can run in that time is
\* the initial check of init, which leaves the debounce timer as it is.
C12_NoCeiling ==
    [][ /\ (ev'.op = "onChange") =>
              /\ debounceTimer' = DEBOUNCE_DELAY_MS
              /\ sinceLastCall' = 0
              /\ ev'.outcome = "none"
        /\ (debounceTimer # NoTimer) =>
              (debounceTimer = DEBOUNCE_DELAY_MS - sinceLastCall)
        /\ (debounceTimer # NoTimer /\ sinceLastCall < DEBOUNCE_DELAY_MS) =>
              (debounceTimer' # NoTimer)
        /\ (ev'.outcome # "none" /\ sinceLastCall >= 0
              /\ sinceLastCall < DEBOUNCE_DELAY_MS) =>
              /\ initialCheckTimer = 0
              /\ initialCheckTimer' = NoTimer
              /\ debounceTimer' = debounceTimer
      ]_vars

\* a burst of calls has already lasted DEBOUNCE_DELAY_MS without a run, and
\* the next call is about to arrive part of the way through the wait
C12_Witness ==
    /\ mutationPending
    /\ burstCalls = MaxBurst
    /\ sinceLastCall = Quantum
    /\ debounceTimer = DEBOUNCE_DELAY_MS - Quantum
    /\ firesSinceCall = 0

\* C13: a check that finds no user message, or no content element in the
\* last user message, returns at once: it does not call analyzePrompt,
\* displays no overlay, logs no detection, and leaves
\* state.lastAnalyzedPrompt, state.overlayVisible and the document as they
\* are; a check of such a page always ends this way.
C13_AbsentInput ==
    [][ /\ (ev'.outcome \in {"noMessage", "noContent"}) =>
              /\ ~ev'.analyzed
              /\ ~ev'.overlay
              /\ ~ev'.adaptive
              /\ lastAnalyzedPrompt' = lastAnalyzedPrompt
              /\ overlayVisible' = overlayVisible
              /\ dom' = dom
              /\ ~mutationPending'
              /\ shownFor' = shownFor
        /\ (ev'.outcome # "none" /\ userMessage.found # "content") =>
              (ev'.outcome = userMessage.found)
      ]_vars

\* with a prompt analyzed and its overlay displayed, a debounced check found
\* the last user message without a content element
C13_Witness ==
    /\ ev.op = "debouncedCheck"
    /\ ev.outcome = "noContent"
    /\ userMessage = NoContent
    /\ lastAnalyzedPrompt = TextWrite
    /\ overlayVisible
    /\ Len(dom) = 1

\* C20: a check that displays the overlay calls createOverlayPanel with the
\* analysis of the text it has just extracted and with that text: the
\* overlay shows the message of the first executive pattern of that
\* analysis and its first suggestion, or the default message and the
\* default suggestion where the analysis has none.
C20_OverlayContent ==
    [][ ev'.overlay =>
            LET analysis == Analysis[ev'.promptText]
                overlay == dom'[1]
            IN  /\ userMessage.found = "content"
                /\ ev'.promptText = Trim(userMessage.textContent)
                /\ ev'.analyzed
                /\ lastAnalyzedPrompt' = ev'.promptText
                /\ shownFor' = shownFor \cup {ev'.promptText}
                /\ Len(dom') = 1
                /\ overlay.warningMessage =
                      IF Len(analysis.executivePatterns) > 0
                      THEN analysis.executivePatterns[1].message
                      ELSE DefaultWarning
                /\ overlay.suggestion =
                      IF Len(analysis.suggestions) > 0
                      THEN analysis.suggestions[1]
                      ELSE DefaultSuggestion
      ]_vars

\* the overlay was displayed for a text that two executive rules match: it
\* shows the message and the suggestion of the first of them
C20_Witness ==
    /\ ev.overlay
    /\ ev.promptText = TextTried
    /\ Len(Analysis[TextTried].executivePatterns) = 2
    /\ Len(dom) = 1
    /\ dom[1].warningMessage = EXECUTIVE_PATTERNS[1].message
    /\ dom[1].suggestion = EXECUTIVE_PATTERNS[1].suggestion
    /\ dom[1].suggestion # Analysis[TextTried].suggestions[2]

\* C21: a run of initMutationObserver that does not find its target installs
\* nothing and sets its 1000 ms timer again; one that finds the target
\* installs the observer and sets no timer.  While no observer is installed
\* the timer is pending, once one is installed it stays installed and no
\* timer is pending, and a run never installs a second observer.  When the
\* target is present the observer gets installed.
C21_ObserverRetry ==
    /\ [][ /\ (ev'.op = "initMutationObserver" /\ ~targetPresent) =>
                 /\ ~observerInstalled'
                 /\ retryTimer' = OBSERVER_RETRY_MS
           /\ (ev'.op = "initMutationObserver" /\ targetPresent) =>
                 /\ ~observerInstalled
                 /\ observerInstalled'
                 /\ retryTimer' = NoTimer
           /\ observerInstalled => observerInstalled'
           /\ observerInstalled' <=> (retryTimer' = NoTimer)
           /\ (retryTimer # NoTimer) => (retryTimer <= OBSERVER_RETRY_MS)
         ]_vars
    /\ (targetPresent ~> observerInstalled)

\* the target was absent when init ran, and a later run of
\* initMutationObserver found it and installed the observer
C21_Witness ==
    /\ ev.op = "initMutationObserver"
    /\ targetPresent
    /\ observerInstalled
    /\ retryTimer = NoTimer
    /\ initialCheckTimer = NoTimer

\* C22: state.overlayVisible is true exactly when an element with the id
\* promptmentor-overlay is in the document, and the document never holds
\* more than one such element.
C22_FlagMatchesDocument ==
    /\ overlayVisible <=> (Len(dom) = 1)
    /\ Len(dom) <= 1

\* a second overlay has just been displayed, after the first was dismissed
C22_Witness ==
    /\ ev.overlay
    /\ overlayVisible
    /\ Len(dom) = 1
    /\ Cardinality(shownFor) = 2

\* the empty string, or at least 15 characters with no white space at
\* either end
StoredPromptShape(t) ==
    \/ t = <<>>
    \/ /\ Len(t) >= MIN_PROMPT_LENGTH
       /\ ~IsSpace(t[1])
       /\ ~IsSpace(t[Len(t)])

\* C23: state.lastAnalyzedPrompt is always the empty string or a text of
\* at least 15 characters without white space at its ends; it changes only
\* in a check that calls analyzePrompt, to the text analyzed; a check that
\* finds no text or a text that is too short leaves it alone.
C23_StoredPrompt ==
    [][ /\ StoredPromptShape(lastAnalyzedPrompt)
        /\ StoredPromptShape(lastAnalyzedPrompt')
        /\ (lastAnalyzedPrompt' # lastAnalyzedPrompt) =>
              /\ ev'.op \in CheckOps
              /\ ev'.analyzed
              /\ ev'.promptText = lastAnalyzedPrompt'
        /\ (ev'.outcome \in {"short", "noMessage", "noContent"}) =>
              /\ ~ev'.analyzed
              /\ lastAnalyzedPrompt' = lastAnalyzedPrompt
      ]_vars

\* the page shows the prompt with white space around it; a check has
\* analyzed it and stored it without the white space
C23_Witness ==
    /\ ev.analyzed
    /\ userMessage.found = "content"
    /\ userMessage.textContent = TextWritePadded
    /\ lastAnalyzedPrompt = TextWrite
    /\ Len(lastAnalyzedPrompt) < Len(userMessage.textContent)

\* C24: a check that calls analyzePrompt stores the text in
\* state.lastAnalyzedPrompt whatever the analysis leads to.  So an executive
\* text analyzed while the overlay is displayed is stored without getting an
\* overlay, a close or proceed click keeps it stored, and every later check
\* that extracts the stored text returns at the comparison with
\* state.lastAnalyzedPrompt: it analyzes nothing and displays nothing,
\* whether or not an overlay is displayed at that time.
C24_RecordedWhateverTheOutcome ==
    [][ /\ ev'.analyzed => (lastAnalyzedPrompt' = ev'.promptText)
        /\ (ev'.analyzed /\ overlayVisible
              /\ Analysis[ev'.promptText].isExecutive) =>
              /\ ~ev'.overlay
              /\ ev'.promptText \notin (shownFor' \ shownFor)
        /\ (ev'.op \in {"close", "proceed"}) =>
              (lastAnalyzedPrompt' = lastAnalyzedPrompt)
        /\ (Extracted(ev') /\ ev'.promptText = lastAnalyzedPrompt) =>
              /\ ev'.outcome = "duplicate"
              /\ ~ev'.analyzed
              /\ ~ev'.overlay
              /\ dom' = dom
              /\ overlayVisible' = overlayVisible
              /\ lastAnalyzedPrompt' = lastAnalyzedPrompt
      ]_vars

\* an executive text was analyzed while the overlay of another text was
\* displayed; the overlay has been dismissed, and a debounced check of the
\* same text has just been dropped: no overlay was ever displayed for it
C24_Witness ==
    /\ ev.op = "debouncedCheck"
    /\ ev.outcome = "duplicate"
    /\ ev.promptText = TextTried
    /\ Analysis[TextTried].isExecutive
    /\ lastAnalyzedPrompt = TextTried
    /\ shownFor = {TextWrite}
    /\ ~overlayVisible
    /\ Len(dom) = 0

\* the step changed the document under body by the program's own doing:
\* the overlay was displayed or removed, the questions block rewritten, or
\* the label of an attached copy button changed
SelfMutation ==
    \/ ev'.overlay
    \/ ev'.op \in {"close", "proceed", "yes", "no"}
    \/ ev'.op \in {"copied", "copyFailed"} /\ copyOp = "attached"
    \/ ev'.op = "copyReset" /\ copyResetTarget = "attached"

\* the page shows the text that is stored in state.lastAnalyzedPrompt
ShowsStoredPrompt ==
    /\ userMessage.found = "content"
    /\ Trim(userMessage.textContent) = lastAnalyzedPrompt

\* the page shows what the previous check found
ShowsPrevExtracted ==
    IF userMessage.found = "content"
    THEN prevExtracted.has
            /\ prevExtracted.text = Trim(userMessage.textContent)
    ELSE ~prevExtracted.has

\* the step is one of the page or of the user
HostStep ==
    ev'.op \in {"hostMutation", "targetAppears", "close", "proceed", "yes",
                "no", "copy"}

\* nothing is pending: no observer callback, no clipboard write, no timer
\* (the retry of initMutationObserver goes on while its target is absent)
Quiet ==
    /\ ~mutationPending
    /\ copyOp = "idle"
    /\ debounceTimer = NoTimer
    /\ initialCheckTimer = NoTimer
    /\ copyResetTimer = NoTimer
    /\ targetPresent => (retryTimer = NoTimer)

\* C25: each change the program makes under the observed body is notified
\* to the observer.  A check that displays the overlay leaves the text it
\* displayed it for stored, so the check its notification leads to, like
\* every check of a page that shows the stored text, returns at the
\* comparison with state.lastAnalyzedPrompt: it analyzes nothing, changes
\* neither the state nor the document, and sets no timer.  A check of a page
\* that shows what the previous check found changes nothing either.  Once
\* the page and the user take no more steps, nothing remains pending.
C25_SelfNotificationsQuiesce ==
    /\ [][ /\ (SelfMutation /\ observerInstalled) => mutationPending'
           /\ ev'.overlay =>
                 /\ userMessage'.found = "content"
                 /\ Trim(userMessage'.textContent) = lastAnalyzedPrompt'
           /\ (ev'.op \in CheckOps /\ ShowsStoredPrompt) =>
                 /\ ev'.outcome = "duplicate"
                 /\ ~ev'.analyzed
                 /\ ~ev'.overlay
                 /\ lastAnalyzedPrompt' = lastAnalyzedPrompt
                 /\ overlayVisible' = overlayVisible
                 /\ dom' = dom
                 /\ shownFor' = shownFor
                 /\ ~mutationPending'
                 /\ (ev'.op = "debouncedCheck") => (debounceTimer' = NoTimer)
                 /\ copyResetTimer' = copyResetTimer
                 /\ retryTimer' = retryTimer
           /\ (ev'.op \in CheckOps /\ ShowsPrevExtracted) =>
                 /\ ~ev'.analyzed
                 /\ ~ev'.overlay
                 /\ lastAnalyzedPrompt' = lastAnalyzedPrompt
                 /\ overlayVisible' = overlayVisible
                 /\ dom' = dom
                 /\ ~mutationPending'
         ]_vars
    /\ (<>[][~HostStep]_vars => <>[]Quiet)

\* the overlay is displayed with a question answered and a copy label
\* restored, the debounced check that followed was dropped as a duplicate,
\* and nothing is pending
C25_Witness ==
    /\ ev.op = "debouncedCheck"
    /\ ev.outcome = "duplicate"
    /\ overlayVisible
    /\ Len(dom) = 1
    /\ dom[1].questions = "positive"
    /\ dom[1].copyLabel = "Copy Suggestion"
    /\ copyResetTarget = "none"
    /\ lastAnalyzedPrompt = TextWrite
    /\ Quiet

(***************************************************************************)
(* Properties of analyzePrompt, checked under SpecClassify                *)
(***************************************************************************)
\* the call of analyzePrompt has returned
Returned == classifier.pc = "returned"

\* the rules of a list whose pattern matches s, in the order of the list
MatchingRules(rules, s) ==
    LET Test(config) == PatternTest(config, s)
    IN  SelectSeq(rules, Test)

\* what analyzePrompt records of a matching rule
Detected(rules) ==
    [i \in 1..Len(rules) |->
        [type |-> rules[i].type, message |-> rules[i].message]]

\* the flags analyzePrompt returns for one text of each kind
FlagPairs ==
    {<<r.isExecutive, r.isAdaptive>> :
        r \in {analyzePrompt(t) :
                 t \in {PhraseWrite, PhraseHint, PhraseWeather,
                         TextTriedOwn}}}

\* the analysis of each phrase on its own
PhraseAnalysis == [p \in Phrases |-> analyzePrompt(p)]

\* C14: in every result of analyzePrompt isExecutive is true exactly when
\* executivePatterns is not empty, which is exactly when some executive rule
\* matches the text, and isAdaptive likewise for the adaptive rules; each of
\* the four combinations of the two flags is the result for some text.
C14_FlagsFollowMatches ==
    /\ Returned =>
          LET r == classifier.result
              t == classifier.promptText
          IN  /\ r.isExecutive <=> (Len(r.executivePatterns) > 0)
              /\ r.isAdaptive <=> (Len(r.adaptivePatterns) > 0)
              /\ r.isExecutive <=>
                    (\E i \in 1..Len(EXECUTIVE_PATTERNS) :
                        PatternTest(EXECUTIVE_PATTERNS[i], t))
              /\ r.isAdaptive <=>
                    (\E i \in 1..Len(ADAPTIVE_PATTERNS) :
                        PatternTest(ADAPTIVE_PATTERNS[i], t))
    /\ FlagPairs = BOOLEAN \X BOOLEAN

\* a text was found adaptive by two rules and not executive
C14_Witness ==
    /\ Returned
    /\ ~classifier.result.isExecutive
    /\ classifier.result.isAdaptive
    /\ Len(classifier.result.adaptivePatterns) = 2
    /\ Len(classifier.result.executivePatterns) = 0

\* C15: analyzePrompt tries every rule: executivePatterns is the type and
\* message of each executive rule that matches the text, one entry per rule
\* in the order of EXECUTIVE_PATTERNS, adaptivePatterns the same for
\* ADAPTIVE_PATTERNS, and suggestions the suggestion of each matching
\* executive rule in that order.
C15_EveryRuleInOrder ==
    Returned =>
        LET r == classifier.result
            t == classifier.promptText
            executive == MatchingRules(EXECUTIVE_PATTERNS, t)
            adaptive == MatchingRules(ADAPTIVE_PATTERNS, t)
        IN  /\ r.executivePatterns = Detected(executive)
            /\ r.adaptivePatterns = Detected(adaptive)
            /\ r.suggestions =
                  [i \in 1..Len(executive) |-> executive[i].suggestion]

\* "solve this write the code": the first two executive rules, which share
\* the type solution_request, both matched and are listed in rule order
C15_Witness ==
    /\ Returned
    /\ classifier.promptText = PhraseSolve \o <<" ">> \o PhraseWrite
    /\ Len(classifier.result.executivePatterns) = 2
    /\ classifier.result.executivePatterns[1].type = "solution_request"
    /\ classifier.result.executivePatterns[2].type = "solution_request"
    /\ classifier.result.executivePatterns[1].message
          = EXECUTIVE_PATTERNS[1].message
    /\ classifier.result.suggestions[2] = EXECUTIVE_PATTERNS[2].suggestion

\* C16: for the empty string and for a text of white space only no rule
\* matches, and analyzePrompt returns both flags false and the three lists
\* empty.
C16_BlankText ==
    (Returned /\ Trim(classifier.promptText) = <<>>) =>
        /\ classifier.result = NoResult
        /\ MatchingRules(EXECUTIVE_PATTERNS, classifier.promptText) = <<>>
        /\ MatchingRules(ADAPTIVE_PATTERNS, classifier.promptText) = <<>>

\* analyzePrompt has returned for a text of blanks, a tab and a newline
C16_Witness ==
    /\ Returned
    /\ classifier.promptText = TextWhitespace
    /\ classifier.result.suggestions = <<>>

\* C17: "let's rewrite code" is not executive, because the "write" in
\* "rewrite" does not start at a word boundary; "write the code" is.
C17_WordBoundary ==
    /\ (Returned /\ classifier.promptText = PhraseRewrite) =>
          /\ ~classifier.result.isExecutive
          /\ classifier.result.executivePatterns = <<>>
    /\ (Returned /\ classifier.promptText = PhraseWrite) =>
          /\ classifier.result.isExecutive
          /\ classifier.result.executivePatterns[1].type = "solution_request"

\* analyzePrompt has returned for "let's rewrite code" with nothing found
C17_Witness ==
    /\ Returned
    /\ classifier.promptText = PhraseRewrite
    /\ classifier.result = NoResult

\* C18: a text with an executive cue and an adaptive cue gets both flags in
\* one result, with both lists non-empty: so for "I tried my own solution,
\* now give me the code", and for every text made of a phrase that is
\* executive and a phrase that is adaptive, in either order.
C18_DualClassification ==
    Returned =>
        LET r == classifier.result
            t == classifier.promptText
            both == /\ r.isExecutive
                    /\ r.isAdaptive
                    /\ Len(r.executivePatterns) > 0
                    /\ Len(r.adaptivePatterns) > 0
        IN  /\ (t = TextTriedOwn) => both
            /\ \A a, b \in Phrases :
                  (/\ PhraseAnalysis[a].isExecutive
                   /\ PhraseAnalysis[b].isAdaptive
                   /\ t \in {a \o <<" ">> \o b, b \o <<" ">> \o a}) => both

\* "I tried my own solution, now give me the code" was found to show an
\* attempt and to request the solution
C18_Witness ==
    /\ Returned
    /\ classifier.promptText = TextTriedOwn
    /\ classifier.result.isExecutive
    /\ classifier.result.isAdaptive
    /\ classifier.result.executivePatterns[1].type = "solution_request"
    /\ classifier.result.adaptivePatterns[1].type = "shows_attempt"

\* C19: for "Can you write the solution for binary search?" analyzePrompt
\* returns isExecutive true, the first executive pattern of type
\* solution_request (the first rule), the first suggestion that of the
\* first rule, and isAdaptive false.
C19_BinarySearch ==
    (Returned /\ classifier.promptText = TextBinarySearch) =>
        LET r == classifier.result
        IN  /\ r.isExecutive
            /\ Len(r.executivePatterns) >= 1
            /\ r.executivePatterns[1].type = "solution_request"
            /\ r.executivePatterns[1].message = EXECUTIVE_PATTERNS[1].message
            /\ Len(r.suggestions) >= 1
            /\ r.suggestions[1] = EXECUTIVE_PATTERNS[1].suggestion
            /\ ~r.isAdaptive
            /\ r.adaptivePatterns = <<>>

\* analyzePrompt has returned for the binary search prompt with one
\* executive pattern
C19_Witness ==
    /\ Returned
    /\ classifier.promptText = TextBinarySearch
    /\ Len(classifier.result.executivePatterns) = 1
    /\ Len(classifier.result.suggestions) = 1

====
